---- MODULE Spec2Model ----
(***************************************************************************)
(* Model of the two diagnostic tools of dyninst-tests:                     *)
(*   cfg-parse    -- the canonical dumper of a parsed control-flow graph   *)
(*   unknown-x86  -- the unknown-instruction callback (myXedCallback),     *)
(*                   the block cross-validator (doBlock) and main          *)
(* Each tool has its own specification over the shared variables; the      *)
(* variables of the other tool stay at their idle values.                  *)
(***************************************************************************)
EXTENDS Integers, Sequences, FiniteSets, TLC

VARIABLES
    \* ---- cfg-parse -------------------------------------------------------
    graph,          \* the parsed binary: entry/start addresses, edge targets
    funcList,       \* code_obj->funcs() in the order the container delivers
    blist,          \* func->blocks() of every function, in delivery order
    targets,        \* block->targets() of every block, in delivery order
    funcVec,        \* main's sorted vector of functions
    fidx,           \* main's loop index n over funcVec
    out,            \* standard output of the current invocation, line by line
    emitted,        \* history: objects in the order their lines were written
    dpc,            \* position of cfg-parse's main
    run,            \* which of two independent invocations is running
    prevOut,        \* standard output of the first invocation
    prevOrder,      \* history: the container orders of the first invocation
    dopts,          \* cfg-parse's Options opts: the four show_ flags
    dargn,          \* getOptions: number of option arguments processed
    dlast           \* history: the option argument processed last

optVars == <<dopts, dargn, dlast>>
dumpVars == <<graph, funcList, blist, targets, funcVec, fidx, out, emitted,
              dpc, run, prevOut, prevOrder, optVars>>

VARIABLES
    \* ---- unknown-x86 -----------------------------------------------------
    opts,               \* Options: quiet, fix_valid, fix_troll, jobs
    pc,                 \* position of unknown-x86's main; "exit1" after exit(1)
    initial_parse,      \* the pass-mode flag
    num_xed_errors,     \* consecutive failures seen by myXedCallback
    num_unknown, num_unknown_valid, num_unknown_troll, num_unknown_error,
    stdout_lines,       \* standard output: number of completed lines
    stdout_tail,        \* standard output: the pieces of the last line written
    last,               \* history: the locals of the latest myXedCallback call
    calls,              \* history: number of myXedCallback invocations
    streak,             \* history: latest invocations in a row that ended UNKNOWN_ERROR
    \* ---- unknown-x86, the parse workers ----------------------------------
    wpc,                \* each worker's position in myXedCallback
    wloc,               \* each worker's locals in myXedCallback
    print_mutex,        \* the worker holding print_mutex, 0 when free
    counted,            \* history: invocations started while initial_parse = 1
    \* ---- unknown-x86, the block cross-validator --------------------------
    num_blocks, num_instns, num_bytes,
    num_bad_length, num_block_align_errors, num_block_length_errors,
    todo,               \* doFunction: blocks of blockVec not yet passed to doBlock
    blk,                \* history: the block of the latest doBlock and what it checked
    \* ---- unknown-x86, phases 2 and 3 over the functions of the binary ----
    funcBlocks,         \* main's funcVec: the block set func->blocks() of each function
    vidx,               \* main's phase 2 loop index n over funcVec
    gapVec,             \* doGaps: blockVec after std::sort
    gn,                 \* doGaps: the loop index n
    prev_block,         \* doGaps: prev_block
    gapStats,           \* num_gaps .. size_gaps_other and num_overlap
    reports,            \* history: the gap and overlap lines doGaps decided on
    vpass,              \* which pass of the phase 2 loop over funcVec is running
    firstRun            \* history: the validator's counters after the first pass

unknownCounters == <<num_unknown, num_unknown_valid, num_unknown_troll, num_unknown_error>>
xedVars == <<opts, pc, initial_parse, num_xed_errors, unknownCounters,
             stdout_lines, stdout_tail, last, calls, streak>>

parVars == <<wpc, wloc, print_mutex, counted>>

blockErrors == <<num_bad_length, num_block_align_errors, num_block_length_errors>>
blockVars == <<num_blocks, num_instns, num_bytes, blockErrors, todo, blk>>
reVars == <<vpass, firstRun>>
gapVars == <<funcBlocks, vidx, gapVec, gn, prev_block, gapStats, reports, reVars>>

\* what cfg-parse leaves alone, and what unknown-x86 leaves alone
notDump == <<xedVars, parVars, blockVars, gapVars, optVars>>
notUnknown == <<dumpVars, blockVars, gapVars>>

-----------------------------------------------------------------------------
(* Bounds *)
MaxAddr == 2
MaxWin == 3          \* longest byte window handed to myXedCallback
MaxCalls == 2        \* myXedCallback invocations in SpecXed
MaxValveCalls == 23  \* myXedCallback invocations in SpecValve
MaxEarlyCalls == 3   \* SpecValve: windows that decode come among the first calls
MaxArgs == 2         \* command-line options before the file name
MaxParCalls == 3     \* myXedCallback invocations in SpecPar
MaxInsns == 4        \* claimed instructions of all validated blocks together
MaxOptArgs == 3      \* output options on cfg-parse's command line
MaxGapBlocks == 3    \* blocks of all functions together in phases 2 and 3
MaxBlocks == 1       \* blocks validated in phase 2

(* Program constants *)
XED_MAX_INSTRUCTION_BYTES == 15
MY_BUF_SIZE == XED_MAX_INSTRUCTION_BYTES + 4
BlockBufExtra == 20
XedDecodeWindow == 16
MaxXedErrors == 20

-----------------------------------------------------------------------------
(* Generic helpers *)

Range(s) == {s[i] : i \in 1..Len(s)}

\* every order in which a container may deliver the elements of S
Orders(S) ==
    {s \in [1..Cardinality(S) -> S] : \A i, j \in 1..Cardinality(S) : i # j => s[i] # s[j]}

RECURSIVE Concat(_)
Concat(ss) == IF ss = <<>> THEN <<>> ELSE Head(ss) \o Concat(Tail(ss))

\* std::sort(first, last, comp): the result is a permutation of the input
\* that is ordered by comp; the order of elements that compare equal is
\* unspecified, so every ordered permutation is a possible outcome.
\* less is the comparator as a function on pairs.
StdSortUnordered(v, less) == Orders(Range(v))
StdSort(v, less) ==
    {p \in Orders(Range(v)) : \A i, j \in 1..Len(p) : i < j => ~less[<<p[j], p[i]>>]}

-----------------------------------------------------------------------------
(* cfg-parse: the graph handed over by the engine *)

Addrs    == 1..MaxAddr
FuncIds  == {1, 2}
BlockIds == {1, 2}
EdgeIds  == {1, 2}

\* Function::blocks(): block 2 is shared by both functions
FuncBlocks == (1 :> {1, 2}) @@ (2 :> {2})
\* Function::name(), Function::retstatus()
FuncName == (1 :> "main") @@ (2 :> "cold")
FuncRet  == (1 :> "NORMAL") @@ (2 :> "NORETURN")
\* Block::targets(): block 1 ends in a call, block 2 has no out edge
BlockEdges == (1 :> {1, 2}) @@ (2 :> {})
\* Block::getInsns(): the claimed instruction lengths, in offset order
BlockInsns == (1 :> <<1, 1>>) @@ (2 :> <<1>>)
\* Edge::type(), Edge::interproc()
EdgeTypeOf == (1 :> "CALL") @@ (2 :> "CALL_FT")
EdgeInterproc == (1 :> TRUE) @@ (2 :> FALSE)

\* Edge::trg(): the call edge targets either block (a call to the next
\* instruction targets the block the call falls through to); the
\* call-fallthrough edge targets block 2
Graphs == [faddr : [FuncIds -> Addrs], bstart : [BlockIds -> Addrs],
           etrg : {t \in [EdgeIds -> BlockIds] : t[2] = 2}]

RECURSIVE SumSeq(_)
SumSeq(s) == IF s = <<>> THEN 0 ELSE Head(s) + SumSeq(Tail(s))

BlockSize(b)  == SumSeq(BlockInsns[b])
BlockStart(b) == graph.bstart[b]
BlockEnd(b)   == BlockStart(b) + BlockSize(b)
BlockLast(b)  == BlockEnd(b) - BlockInsns[b][Len(BlockInsns[b])]
ContainingFuncs(b) == {f \in FuncIds : b \in FuncBlocks[f]}

(* Canonical Ordering *)
BlockLessThan(b1, b2) == graph.bstart[b1] < graph.bstart[b2]
EdgeLessThan(e1, e2)  == graph.bstart[graph.etrg[e1]] < graph.bstart[graph.etrg[e2]]
FuncLessThan(f1, f2)  == graph.faddr[f1] < graph.faddr[f2]

BlockLess == [p \in BlockIds \X BlockIds |-> BlockLessThan(p[1], p[2])]
EdgeLess  == [p \in EdgeIds \X EdgeIds |-> EdgeLessThan(p[1], p[2])]
FuncLess  == [p \in FuncIds \X FuncIds |-> FuncLessThan(p[1], p[2])]

edgeType(type) ==
    CASE type = "CALL"           -> "call"
      [] type = "COND_TAKEN"     -> "cond-take"
      [] type = "COND_NOT_TAKEN" -> "cond-not"
      [] type = "INDIRECT"       -> "indirect"
      [] type = "DIRECT"         -> "direct"
      [] type = "FALLTHROUGH"    -> "fallthr"
      [] type = "CATCH"          -> "catch"
      [] type = "CALL_FT"        -> "call-ft"
      [] type = "RET"            -> "return"
      [] OTHER                   -> "unknown"

isNoreturn(b) == \E f \in ContainingFuncs(b) : FuncRet[f] = "NORETURN"

-----------------------------------------------------------------------------
(* cfg-parse: rendering.  A line of standard output is a tuple of its       *)
(* fields; numbers stand for their fixed hexadecimal or decimal rendering.  *)

\* Options::Options(): all output layers on
DefaultOptions ==
    [show_blocks |-> TRUE, show_stmts |-> TRUE, show_inline |-> TRUE, show_linemap |-> TRUE]

\* Module::getSourceLines(svec, addr): the statements of the module containing
\* addr; here odd addresses have a line-map entry, even ones have none
getLineMapInfo(addr) ==
    IF addr % 2 = 1 THEN <<[file |-> "a.c", line |-> 10 + addr]>> ELSE <<>>

\* Symtab::getContainingInlinedFunction(addr) followed by getInlinedParent():
\* the functions around addr innermost first, the last one not inlined
\* (its parent is NULL); empty when no function contains addr
InlineChainAt(addr) ==
    CASE addr % 4 = 1 ->
            << [name |-> "I0", callfile |-> "i1.h", callline |-> 7],
               [name |-> "I1", callfile |-> "o.c", callline |-> 3],
               [name |-> "O", callfile |-> "", callline |-> 0] >>
      [] addr % 4 = 2 ->
            << [name |-> "O", callfile |-> "", callline |-> 0] >>
      [] addr % 4 = 3 ->
            << [name |-> "I2", callfile |-> "p.c", callline |-> 5],
               [name |-> "P", callfile |-> "", callline |-> 0] >>
      [] OTHER -> <<>>

\* the while (parent != NULL) loop with push_back in place of push_front
RECURSIVE InlineSeqnBottomUp(_, _, _)
InlineSeqnBottomUp(chain, i, acc) ==
    IF i + 1 > Len(chain) THEN acc
    ELSE InlineSeqnBottomUp(chain, i + 1,
            acc \o <<[filenm |-> chain[i].callfile, procnm |-> chain[i].name,
                      line |-> chain[i].callline]>>)

\* the while (parent != NULL) loop: push_front of func's call site and name
RECURSIVE InlineSeqn(_, _, _)
InlineSeqn(chain, i, acc) ==
    IF i + 1 > Len(chain) THEN acc
    ELSE InlineSeqn(chain, i + 1,
            <<[filenm |-> chain[i].callfile, procnm |-> chain[i].name,
               line |-> chain[i].callline]>> \o acc)

doInstruction(o, addr, size) ==
    LET svec == getLineMapInfo(addr)
        lm == IF o.show_linemap
              THEN IF svec # <<>> THEN <<svec[1].line, svec[1].file>> ELSE <<0, "">>
              ELSE <<>>
        chain == InlineChainAt(addr)
        seqn == IF o.show_inline /\ chain # <<>> THEN InlineSeqn(chain, 1, <<>>) ELSE <<>>
    IN  <<  <<"stmt", addr, size, lm>>  >>
        \o [k \in 1..Len(seqn) |-> <<"inline", seqn[k].line, seqn[k].filenm, seqn[k].procnm>>]

\* the statement loop of doBlock: imap in offset order
RECURSIVE StmtLines(_, _, _)
StmtLines(o, addr, lens) ==
    IF lens = <<>> THEN <<>>
    ELSE doInstruction(o, addr, Head(lens)) \o StmtLines(o, addr + Head(lens), Tail(lens))

\* the addresses printed after "funcs:": Funcs sorted by FuncLessThan; only
\* the addresses are printed, so every outcome of the sort prints the same
FuncAddrsSorted(b) ==
    LET p == CHOOSE q \in StdSort(CHOOSE d \in Orders(ContainingFuncs(b)) : TRUE, FuncLess) : TRUE
    IN  [k \in 1..Len(p) |-> graph.faddr[p[k]]]

EdgeText(e) ==
    <<BlockStart(graph.etrg[e]), edgeType(EdgeTypeOf[e]), EdgeInterproc[e],
      EdgeTypeOf[e] = "CALL" /\ isNoreturn(graph.etrg[e])>>

\* doBlock with the statement loop nested in the block layer
doBlockNested(o, b, edgeVec) ==
    IF o.show_blocks
    THEN << <<"block", BlockStart(b), BlockEnd(b), Len(BlockInsns[b]), BlockSize(b), <<>> >> >>
         \o (IF o.show_stmts THEN StmtLines(o, BlockStart(b), BlockInsns[b]) ELSE <<>>)
         \o << <<"out edges", BlockLast(b), Len(edgeVec),
                 [k \in 1..Len(edgeVec) |-> EdgeText(edgeVec[k])]>> >>
    ELSE <<>>

\* doBlock(block), with edgeVec the outcome of its std::sort
doBlock(o, b, edgeVec) ==
    LET num_funcs == Cardinality(ContainingFuncs(b)) IN
    (IF o.show_blocks
     THEN << <<"block", BlockStart(b), BlockEnd(b), Len(BlockInsns[b]), BlockSize(b),
               IF num_funcs > 1 THEN <<num_funcs, FuncAddrsSorted(b)>> ELSE <<>> >> >>
     ELSE <<>>)
    \o (IF o.show_stmts THEN StmtLines(o, BlockStart(b), BlockInsns[b]) ELSE <<>>)
    \o (IF o.show_blocks
        THEN << <<"out edges", BlockLast(b), Len(edgeVec),
                  [k \in 1..Len(edgeVec) |-> EdgeText(edgeVec[k])]>> >>
        ELSE <<>>)

\* doFunction(func), with blockVec the outcome of its std::sort and
\* edgeVecOf[b] the outcome of the sort in doBlock(b)
doFunction(o, f, blockVec, edgeVecOf) ==
    LET bytes == SumSeq([k \in 1..Len(blist[f]) |-> BlockSize(blist[f][k])]) IN
    << <<"func", graph.faddr[f],
         IF o.show_blocks
         THEN <<Len(blist[f]), bytes, FuncRet[f] = "NORETURN">> ELSE <<>>,
         FuncName[f]>> >>
    \o (IF o.show_stmts /\ ~o.show_blocks THEN << <<"">> >> ELSE <<>>)
    \o Concat([k \in 1..Len(blockVec) |-> doBlock(o, blockVec[k], edgeVecOf[blockVec[k]])])

\* history of one doFunction call: the function, then each block followed
\* by its out edges, in the order their text was written
RECURSIVE EmitBlocks(_, _, _)
EmitBlocks(f, blockVec, edgeVecOf) ==
    IF blockVec = <<>> THEN <<>>
    ELSE LET b == Head(blockVec) IN
         << <<"B", f, b>> >>
         \o [k \in 1..Len(edgeVecOf[b]) |-> <<"E", f, b, edgeVecOf[b][k]>>]
         \o EmitBlocks(f, Tail(blockVec), edgeVecOf)

EmitFunction(f, blockVec, edgeVecOf) == << <<"F", f>> >> \o EmitBlocks(f, blockVec, edgeVecOf)

-----------------------------------------------------------------------------
(* cfg-parse: main *)

NoOrder == [f \in FuncIds |-> <<>>]
NoTargets == [b \in BlockIds |-> <<>>]

IdleGraph == [faddr |-> [f \in FuncIds |-> 1], bstart |-> [b \in BlockIds |-> 1],
              etrg |-> [e \in EdgeIds |-> 2]]

IdleDump ==
    /\ graph = IdleGraph
    /\ funcList = <<>> /\ blist = NoOrder /\ targets = NoTargets
    /\ funcVec = <<>> /\ fidx = 0
    /\ out = <<>> /\ emitted = <<>>
    /\ dpc = "start" /\ run = 1
    /\ prevOut = <<>> /\ prevOrder = <<>>
    /\ dopts = DefaultOptions /\ dargn = 0 /\ dlast = ""

InitDump ==
    /\ graph \in Graphs
    /\ funcList = <<>> /\ blist = NoOrder /\ targets = NoTargets
    /\ funcVec = <<>> /\ fidx = 0
    /\ out = <<>> /\ emitted = <<>>
    /\ dpc = "start" /\ run = 1
    /\ prevOut = <<>> /\ prevOrder = <<>>
    /\ dopts = DefaultOptions /\ dargn = 0 /\ dlast = ""

\* the outcomes of the std::sort of every block's out edges
EdgeVecChoices ==
    LET outcomes == [b \in BlockIds |-> StdSort(targets[b], EdgeLess)] IN
    {ev \in [BlockIds -> UNION {outcomes[b] : b \in BlockIds}] :
        \A b \in BlockIds : ev[b] \in outcomes[b]}

\* phases 1 and 2: the header line, then the engine parses the binary; its
\* containers deliver functions, blocks and edges in an unspecified order
MainParse ==
    /\ dpc = "start"
    /\ funcList' \in Orders(FuncIds)
    /\ blist' \in {bl \in [FuncIds -> UNION {Orders(FuncBlocks[f]) : f \in FuncIds}] :
                      \A f \in FuncIds : bl[f] \in Orders(FuncBlocks[f])}
    /\ targets' \in {tg \in [BlockIds -> UNION {Orders(BlockEdges[b]) : b \in BlockIds}] :
                      \A b \in BlockIds : tg[b] \in Orders(BlockEdges[b])}
    /\ out' = << <<"file">> >>
    /\ dpc' = "parsed"
    /\ UNCHANGED <<graph, funcVec, fidx, emitted, run, prevOut, prevOrder>>
    /\ UNCHANGED notDump

\* phase 3: copy funcList into funcVec and std::sort it
MainSortFuncs ==
    /\ dpc = "parsed"
    /\ funcVec' \in StdSort(funcList, FuncLess)
    /\ fidx' = 1
    /\ dpc' = "dump"
    /\ UNCHANGED <<graph, funcList, blist, targets, out, emitted, run, prevOut, prevOrder>>
    /\ UNCHANGED notDump

\* one iteration of for (n = 0; n < funcVec.size(); n++) doFunction(funcVec[n])
MainDoFunction ==
    /\ dpc = "dump"
    /\ fidx <= Len(funcVec)
    /\ LET f == funcVec[fidx] IN
       \E blockVec \in StdSort(blist[f], BlockLess) :
       \E edgeVecOf \in EdgeVecChoices :
          /\ out' = out \o doFunction(dopts, f, blockVec, edgeVecOf)
          /\ emitted' = emitted \o EmitFunction(f, blockVec, edgeVecOf)
    /\ fidx' = fidx + 1
    /\ UNCHANGED <<graph, funcList, blist, targets, funcVec, dpc, run, prevOut, prevOrder>>
    /\ UNCHANGED notDump

\* after the loop: "num funcs:" and return 0
MainFinish ==
    /\ dpc = "dump"
    /\ fidx > Len(funcVec)
    /\ out' = Append(out, <<"num funcs", Len(funcVec)>>)
    /\ dpc' = "done"
    /\ UNCHANGED <<graph, funcList, blist, targets, funcVec, fidx, emitted, run, prevOut, prevOrder>>
    /\ UNCHANGED notDump

\* a second, independent invocation of cfg-parse on the same binary
MainRerun ==
    /\ dpc = "done"
    /\ run = 1
    /\ prevOut' = out
    /\ prevOrder' = <<funcList, blist, targets>>
    /\ funcList' = <<>> /\ blist' = NoOrder /\ targets' = NoTargets
    /\ funcVec' = <<>> /\ fidx' = 0
    /\ out' = <<>> /\ emitted' = <<>>
    /\ dpc' = "start" /\ run' = 2
    /\ UNCHANGED graph
    /\ UNCHANGED notDump

NextDump == MainParse \/ MainSortFuncs \/ MainDoFunction \/ MainFinish \/ MainRerun

-----------------------------------------------------------------------------
(* unknown-x86: options *)

\* Options::Options()
Options0 == [jobs |-> 1, quiet |-> FALSE, verbose |-> FALSE,
             fix_valid |-> FALSE, fix_troll |-> FALSE]

\* "-j 2" stands for the two arguments -j and 2
OptionArgs == {"-q", "--fix", "--fix-all", "--no-fix"}
ArgSeqs == UNION {[1..k -> OptionArgs] : k \in 0..MaxArgs}

\* the while loop of getOptions over the options before the file name
RECURSIVE getOptions(_, _)
getOptions(args, o) ==
    IF args = <<>> THEN o
    ELSE LET arg == Head(args) IN
         getOptions(Tail(args),
            CASE arg = "-j 2"      -> [o EXCEPT !.jobs = 2]
              [] arg = "-q"        -> [o EXCEPT !.quiet = TRUE]
              [] arg = "-v"        -> [o EXCEPT !.verbose = TRUE]
              [] arg = "--fix"     -> [o EXCEPT !.fix_valid = TRUE, !.fix_troll = FALSE]
              [] arg = "--fix-all" -> [o EXCEPT !.fix_valid = TRUE, !.fix_troll = TRUE]
              [] arg = "--no-fix"  -> [o EXCEPT !.fix_valid = FALSE, !.fix_troll = FALSE])

-----------------------------------------------------------------------------
(* unknown-x86: the Reference Decoder and myXedCallback *)

\* byte 0 starts no instruction, byte 1 is a one-byte instruction, byte 2
\* starts a two-byte instruction
Bytes == 0..2
Windows == UNION {[1..k -> Bytes] : k \in 0..MaxWin}

\* xed_decode(&xedd, bytes, Len(bytes)) and xed_decoded_inst_get_length
xed_decode(bytes) ==
    IF bytes # <<>> /\ bytes[1] = 1 THEN [error |-> FALSE, length |-> 1]
    ELSE IF Len(bytes) >= 2 /\ bytes[1] = 2 THEN [error |-> FALSE, length |-> 2]
    ELSE [error |-> TRUE, length |-> 0]

\* the copy loop: at most MY_BUF_SIZE bytes of seqn
CopyBuf(seqn) ==
    SubSeq(seqn, 1, IF Len(seqn) < MY_BUF_SIZE THEN Len(seqn) ELSE MY_BUF_SIZE)

\* Instruction{} and the fake no-op of a given length
NoInstruction == [valid |-> FALSE, size |-> 0]
Filler(len) == [valid |-> TRUE, size |-> len]

\* for (start = 1; start < buf_len; start++): the first offset that decodes
RECURSIVE TrollLate(_, _)
TrollLate(buf, start) ==
    IF ~(start < Len(buf))
    THEN [is_troll |-> FALSE, start |-> start, xed_len |-> 0, xed_error |-> TRUE]
    ELSE LET d == xed_decode(SubSeq(buf, start + 1, Len(buf)))
             rest == TrollLate(buf, start + 1) IN
         IF rest.is_troll THEN rest
         ELSE IF ~d.error
              THEN [is_troll |-> TRUE, start |-> start, xed_len |-> d.length, xed_error |-> FALSE]
              ELSE rest

RECURSIVE Troll(_, _)
Troll(buf, start) ==
    IF ~(start < Len(buf))
    THEN [is_troll |-> FALSE, start |-> start, xed_len |-> 0, xed_error |-> TRUE]
    ELSE LET d == xed_decode(SubSeq(buf, start + 1, Len(buf))) IN
         IF ~d.error
         THEN [is_troll |-> TRUE, start |-> start, xed_len |-> d.length, xed_error |-> FALSE]
         ELSE Troll(buf, start + 1)

\* case 2 with fix_troll: the fake no-op has length start
TrollFillerXedLen(t) == Filler(t.xed_len)
TrollFiller(t) == Filler(t.start)

\* the decoding part of myXedCallback: the locals after the three cases
Decode(seqn, o) ==
    LET buf == CopyBuf(seqn)
        d0 == xed_decode(buf)
    IN  IF ~d0.error
        THEN [buf |-> buf, is_valid |-> TRUE, is_troll |-> FALSE, start |-> 0,
              xed_len |-> d0.length, xed_error |-> FALSE,
              ret |-> IF o.fix_valid THEN Filler(d0.length) ELSE NoInstruction]
        ELSE LET t == Troll(buf, 1) IN
             [buf |-> buf, is_valid |-> FALSE, is_troll |-> t.is_troll, start |-> t.start,
              xed_len |-> t.xed_len, xed_error |-> t.xed_error,
              ret |-> IF t.is_troll /\ o.fix_troll THEN TrollFiller(t) ELSE NoInstruction]

\* a piece of text written to standard output by worker w (0: the main
\* thread); nl tells whether it ends the line
Piece(w, text, nl) == [by |-> w, text |-> text, nl |-> nl]

\* standard output after one more piece
TailAfter(piece) ==
    IF stdout_tail = <<>> \/ stdout_tail[Len(stdout_tail)].nl
    THEN <<piece>> ELSE Append(stdout_tail, piece)
LinesAfter(piece) == stdout_lines + (IF piece.nl THEN 1 ELSE 0)

\* the "unknown: ..." line printed under print_mutex: printf("unknown: ")
\* and the byte loop, then the printf of the outcome
TraceHead(r) == <<"unknown:", r.buf>>
TraceResult(r, o) ==
    IF r.is_valid THEN <<"valid", r.xed_len, o.fix_valid>>
    ELSE IF r.is_troll THEN <<"troll", r.start, r.xed_len, o.fix_troll>>
    ELSE <<"error">>

\* if (num_xed_errors > 20)
RunawayAt(n) == n >= MaxXedErrors
Runaway(n) == n > MaxXedErrors

\* if (initial_parse), the guard of the counting section
CountingAlways(flag) == TRUE
Counting(flag) == flag = 1

NoCall == [buf |-> <<>>, is_valid |-> FALSE, is_troll |-> FALSE, start |-> 0, xed_len |-> 0,
           xed_error |-> FALSE, ret |-> NoInstruction, flag |-> 0, returned |-> FALSE]

\* one invocation of myXedCallback(seqn) by a single worker
myXedCallback(seqn) ==
    LET r == Decode(seqn, opts)
        errs == IF r.xed_error THEN num_xed_errors + 1 ELSE 0
        abort == r.xed_error /\ Runaway(errs)
    IN  /\ num_xed_errors' = errs
        /\ calls' = calls + 1
        /\ streak' = IF ~r.is_valid /\ ~r.is_troll THEN streak + 1 ELSE 0
        /\ last' = [buf |-> r.buf, is_valid |-> r.is_valid, is_troll |-> r.is_troll,
                    start |-> r.start, xed_len |-> r.xed_len, xed_error |-> r.xed_error,
                    ret |-> r.ret, flag |-> initial_parse, returned |-> ~abort]
        /\ IF abort
           THEN \* cout << "\nexceeded num xed errors: " ...; exit(1)
                /\ stdout_lines' = stdout_lines + 3
                /\ stdout_tail' = <<Piece(0, <<"exceeded num xed errors:", errs>>, TRUE)>>
                /\ pc' = "exit1"
                /\ UNCHANGED unknownCounters
           ELSE /\ IF initial_parse = 1 /\ ~opts.quiet
                   THEN /\ stdout_lines' = stdout_lines + 1
                        /\ stdout_tail' = <<Piece(0, TraceHead(r), FALSE),
                                            Piece(0, TraceResult(r, opts), TRUE)>>
                   ELSE UNCHANGED <<stdout_lines, stdout_tail>>
                /\ IF Counting(initial_parse)
                   THEN /\ num_unknown' = num_unknown + 1
                        /\ num_unknown_valid' = num_unknown_valid + (IF r.is_valid THEN 1 ELSE 0)
                        /\ num_unknown_troll' =
                              num_unknown_troll + (IF ~r.is_valid /\ r.is_troll THEN 1 ELSE 0)
                        /\ num_unknown_error' =
                              num_unknown_error + (IF ~r.is_valid /\ ~r.is_troll THEN 1 ELSE 0)
                   ELSE UNCHANGED unknownCounters
                /\ UNCHANGED pc
        /\ counted' = counted + initial_parse
        /\ UNCHANGED <<opts, initial_parse, wpc, wloc, print_mutex>>
        /\ UNCHANGED notUnknown

-----------------------------------------------------------------------------
(* unknown-x86: main, as far as the callback is concerned *)

\* the threads of the parse phase: omp_set_num_threads(opts.jobs)
AllWorkers == {1, 2}
NoLocals == [buf |-> <<>>, is_valid |-> FALSE, is_troll |-> FALSE, start |-> 0, xed_len |-> 0,
             xed_error |-> FALSE, ret |-> NoInstruction, flag |-> 0, tmp |-> 0]

NoBlock == [b |-> [start |-> 0, size |-> 0, imap |-> <<>>], checks |-> <<>>, done |-> FALSE]

NoGapBlock == [start |-> 0, end |-> 0]
NoCounters == [num_blocks |-> 0, num_instns |-> 0, num_bytes |-> 0, num_bad_length |-> 0,
               num_block_align_errors |-> 0, num_block_length_errors |-> 0]
NoGaps == [num_gaps |-> 0, num_gaps_16 |-> 0, num_gaps_64 |-> 0, num_gaps_256 |-> 0,
           num_gaps_other |-> 0, num_overlap |-> 0, size_gaps |-> 0, size_gaps_16 |-> 0,
           size_gaps_64 |-> 0, size_gaps_256 |-> 0, size_gaps_other |-> 0]

\* the state after static initialisation
InitUnknown ==
    /\ opts = Options0
    /\ pc = "start"
    /\ initial_parse = 1
    /\ num_xed_errors = 0
    /\ num_unknown = 0 /\ num_unknown_valid = 0
    /\ num_unknown_troll = 0 /\ num_unknown_error = 0
    /\ stdout_lines = 0 /\ stdout_tail = <<>>
    /\ last = NoCall /\ calls = 0 /\ streak = 0
    /\ wpc = [w \in AllWorkers |-> "idle"]
    /\ wloc = [w \in AllWorkers |-> NoLocals]
    /\ print_mutex = 0
    /\ counted = 0
    /\ num_blocks = 0 /\ num_instns = 0 /\ num_bytes = 0
    /\ num_bad_length = 0 /\ num_block_align_errors = 0 /\ num_block_length_errors = 0
    /\ todo = 0
    /\ blk = NoBlock
    /\ funcBlocks = <<>> /\ vidx = 0
    /\ gapVec = <<>> /\ gn = 0 /\ prev_block = NoGapBlock
    /\ gapStats = NoGaps
    /\ reports = <<>>
    /\ vpass = 1 /\ firstRun = NoCounters

IdleUnknown == InitUnknown

\* getOptions, the header lines, the phase 1 banner, register_callback,
\* initial_parse = 1
MainStart(args) ==
    /\ pc = "start"
    /\ opts' = getOptions(args, opts)
    /\ stdout_lines' = stdout_lines + 4 + (IF opts'.quiet THEN 1 ELSE 3)
    /\ stdout_tail' = <<Piece(0, <<"phase 1">>, TRUE)>>
    /\ initial_parse' = 1
    /\ pc' = "parse"
    /\ UNCHANGED <<num_xed_errors, unknownCounters, last, calls, streak>>
    /\ UNCHANGED parVars
    /\ UNCHANGED notUnknown

\* code_obj->parse() has returned: the phase 2 banner, initial_parse = 0
MainEndParse ==
    /\ pc = "parse"
    /\ \A w \in AllWorkers : wpc[w] = "idle"
    /\ stdout_lines' = stdout_lines + (IF opts.quiet THEN 1 ELSE 3)
    /\ stdout_tail' = <<Piece(0, <<"phase 2">>, TRUE)>>
    /\ initial_parse' = 0
    /\ pc' = "phase2"
    /\ UNCHANGED <<opts, num_xed_errors, unknownCounters, last, calls, streak>>
    /\ UNCHANGED parVars
    /\ UNCHANGED notUnknown

\* the engine calls the registered callback: during the parse, and again in
\* phase 2 when Block::getInsns splits a block into instructions
XedStart == \E args \in ArgSeqs : MainStart(args)
XedCall ==
    /\ pc \in {"parse", "phase2"}
    /\ calls < MaxCalls
    /\ \E seqn \in Windows : myXedCallback(seqn)

NextXed == XedStart \/ XedCall \/ MainEndParse

InitXed == InitUnknown /\ IdleDump

\* the same program on a long run of calls: one window for each outcome;
\* windows that decode arrive among the first MaxEarlyCalls invocations, after
\* that the engine has lost synchronisation and no window decodes
ValveWindows == {<<1>>, <<0, 1>>, <<0>>}
ValveArgSeqs == {<<>>, <<"-q">>, <<"--fix-all">>}

ValveStart == \E args \in ValveArgSeqs : MainStart(args)
ValveCall ==
    /\ pc \in {"parse", "phase2"}
    /\ calls < MaxValveCalls
    /\ \E seqn \in ValveWindows :
          /\ calls < MaxEarlyCalls \/ Decode(seqn, opts).xed_error
          /\ myXedCallback(seqn)

NextValve == ValveStart \/ ValveCall \/ MainEndParse

-----------------------------------------------------------------------------
(* unknown-x86: myXedCallback step by step, called by the parse workers.  *)
(* Each step is one access to shared state; the decoding works on locals.   *)

Workers == 1..opts.jobs
ParWindows == {<<1>>, <<0, 1>>, <<0>>}
ParArgSeqs == {<<"-j 2">>, <<"-j 2", "-q">>, <<"-j 2", "--fix-all">>}

GoTo(w, label) == wpc' = [wpc EXCEPT ![w] = label]
SetTmp(w, v) == wloc' = [wloc EXCEPT ![w].tmp = v]

\* print_mutex.lock() returns only when no thread holds the mutex
MutexIgnored == TRUE
MutexFree == print_mutex = 0

ParStart == \E args \in ParArgSeqs : MainStart(args)

\* entry, the copy loop and the three decode cases: locals only.  During the
\* parse any worker is called; in phase 2 only the main thread (worker 1) is.
WCall(w, seqn) ==
    /\ pc = "parse" \/ (pc = "phase2" /\ w = 1)
    /\ w \in Workers
    /\ wpc[w] = "idle"
    /\ calls < MaxParCalls
    /\ LET r == Decode(seqn, opts) IN
       wloc' = [wloc EXCEPT ![w] =
                  [buf |-> r.buf, is_valid |-> r.is_valid, is_troll |-> r.is_troll,
                   start |-> r.start, xed_len |-> r.xed_len, xed_error |-> r.xed_error,
                   ret |-> r.ret, flag |-> initial_parse, tmp |-> 0]]
    /\ GoTo(w, "valve")
    /\ calls' = calls + 1
    /\ counted' = counted + initial_parse
    /\ UNCHANGED <<opts, pc, initial_parse, num_xed_errors, unknownCounters,
                   stdout_lines, stdout_tail, last, streak, print_mutex>>
    /\ UNCHANGED notUnknown

\* num_xed_errors++ is a load and a store of an unprotected global
WValveLoad(w) ==
    /\ pc \in {"parse", "phase2"}
    /\ wpc[w] = "valve"
    /\ wloc[w].xed_error
    /\ SetTmp(w, num_xed_errors)
    /\ GoTo(w, "incr")
    /\ UNCHANGED <<xedVars, print_mutex, counted>>
    /\ UNCHANGED notUnknown

WValveStore(w) ==
    /\ pc \in {"parse", "phase2"}
    /\ wpc[w] = "incr"
    /\ num_xed_errors' = wloc[w].tmp + 1
    /\ GoTo(w, "check")
    /\ UNCHANGED <<opts, pc, initial_parse, unknownCounters, stdout_lines, stdout_tail,
                   last, calls, streak, wloc, print_mutex, counted>>
    /\ UNCHANGED notUnknown

\* if (num_xed_errors > 20) { cout << ...; exit(1); }
WValveCheck(w) ==
    /\ pc \in {"parse", "phase2"}
    /\ wpc[w] = "check"
    /\ IF Runaway(num_xed_errors)
       THEN LET piece == Piece(w, <<"exceeded num xed errors:", num_xed_errors>>, TRUE) IN
            /\ stdout_tail' = TailAfter(piece)
            /\ stdout_lines' = LinesAfter(piece) + 2
            /\ pc' = "exit1"
            /\ UNCHANGED wpc
       ELSE /\ GoTo(w, "lock")
            /\ UNCHANGED <<stdout_tail, stdout_lines, pc>>
    /\ UNCHANGED <<opts, initial_parse, num_xed_errors, unknownCounters,
                   last, calls, streak, wloc, print_mutex, counted>>
    /\ UNCHANGED notUnknown

\* else num_xed_errors = 0
WValveReset(w) ==
    /\ pc \in {"parse", "phase2"}
    /\ wpc[w] = "valve"
    /\ ~wloc[w].xed_error
    /\ num_xed_errors' = 0
    /\ GoTo(w, "lock")
    /\ UNCHANGED <<opts, pc, initial_parse, unknownCounters, stdout_lines, stdout_tail,
                   last, calls, streak, wloc, print_mutex, counted>>
    /\ UNCHANGED notUnknown

\* print_mutex.lock()
WLock(w) ==
    /\ pc \in {"parse", "phase2"}
    /\ wpc[w] = "lock"
    /\ MutexFree
    /\ print_mutex' = w
    /\ GoTo(w, "print")
    /\ UNCHANGED <<xedVars, wloc, counted>>
    /\ UNCHANGED notUnknown

\* if (initial_parse && ! opts.quiet): printf("unknown: ") and the bytes
WPrintHead(w) ==
    /\ pc \in {"parse", "phase2"}
    /\ wpc[w] = "print"
    /\ IF initial_parse = 1 /\ ~opts.quiet
       THEN LET piece == Piece(w, TraceHead(wloc[w]), FALSE) IN
            /\ stdout_tail' = TailAfter(piece)
            /\ stdout_lines' = LinesAfter(piece)
            /\ GoTo(w, "result")
       ELSE /\ GoTo(w, "count")
            /\ UNCHANGED <<stdout_tail, stdout_lines>>
    /\ UNCHANGED <<opts, pc, initial_parse, num_xed_errors, unknownCounters,
                   last, calls, streak, wloc, print_mutex, counted>>
    /\ UNCHANGED notUnknown

\* the printf of "valid", "troll" or "error", which ends the line
WPrintResult(w) ==
    /\ pc \in {"parse", "phase2"}
    /\ wpc[w] = "result"
    /\ LET piece == Piece(w, TraceResult(wloc[w], opts), TRUE) IN
       /\ stdout_tail' = TailAfter(piece)
       /\ stdout_lines' = LinesAfter(piece)
    /\ GoTo(w, "count")
    /\ UNCHANGED <<opts, pc, initial_parse, num_xed_errors, unknownCounters,
                   last, calls, streak, wloc, print_mutex, counted>>
    /\ UNCHANGED notUnknown

\* if (initial_parse): num_unknown++ begins with a load
WCountLoad(w) ==
    /\ pc \in {"parse", "phase2"}
    /\ wpc[w] = "count"
    /\ IF Counting(initial_parse)
       THEN SetTmp(w, num_unknown) /\ GoTo(w, "store")
       ELSE GoTo(w, "unlock") /\ UNCHANGED wloc
    /\ UNCHANGED <<xedVars, print_mutex, counted>>
    /\ UNCHANGED notUnknown

\* the store of num_unknown++, then the increment of one sub-counter
WCountStore(w) ==
    /\ pc \in {"parse", "phase2"}
    /\ wpc[w] = "store"
    /\ num_unknown' = wloc[w].tmp + 1
    /\ num_unknown_valid' = num_unknown_valid + (IF wloc[w].is_valid THEN 1 ELSE 0)
    /\ num_unknown_troll' =
          num_unknown_troll + (IF ~wloc[w].is_valid /\ wloc[w].is_troll THEN 1 ELSE 0)
    /\ num_unknown_error' =
          num_unknown_error + (IF ~wloc[w].is_valid /\ ~wloc[w].is_troll THEN 1 ELSE 0)
    /\ GoTo(w, "unlock")
    /\ UNCHANGED <<opts, pc, initial_parse, num_xed_errors, stdout_lines, stdout_tail,
                   last, calls, streak, wloc, print_mutex, counted>>
    /\ UNCHANGED notUnknown

\* print_mutex.unlock()
WUnlock(w) ==
    /\ pc \in {"parse", "phase2"}
    /\ wpc[w] = "unlock"
    /\ print_mutex' = 0
    /\ GoTo(w, "ret")
    /\ UNCHANGED <<xedVars, wloc, counted>>
    /\ UNCHANGED notUnknown

\* return ret
WReturn(w) ==
    /\ pc \in {"parse", "phase2"}
    /\ wpc[w] = "ret"
    /\ last' = [buf |-> wloc[w].buf, is_valid |-> wloc[w].is_valid,
                is_troll |-> wloc[w].is_troll, start |-> wloc[w].start,
                xed_len |-> wloc[w].xed_len, xed_error |-> wloc[w].xed_error,
                ret |-> wloc[w].ret, flag |-> wloc[w].flag, returned |-> TRUE]
    /\ streak' = IF ~wloc[w].is_valid /\ ~wloc[w].is_troll THEN streak + 1 ELSE 0
    /\ wloc' = [wloc EXCEPT ![w] = NoLocals]
    /\ GoTo(w, "idle")
    /\ UNCHANGED <<opts, pc, initial_parse, num_xed_errors, unknownCounters,
                   stdout_lines, stdout_tail, calls, print_mutex, counted>>
    /\ UNCHANGED notUnknown

ParCall == \E w \in AllWorkers : \E seqn \in ParWindows : WCall(w, seqn)
ParValveLoad == \E w \in AllWorkers : WValveLoad(w)
ParValveStore == \E w \in AllWorkers : WValveStore(w)
ParValveCheck == \E w \in AllWorkers : WValveCheck(w)
ParValveReset == \E w \in AllWorkers : WValveReset(w)
ParLock == \E w \in AllWorkers : WLock(w)
ParPrintHead == \E w \in AllWorkers : WPrintHead(w)
ParPrintResult == \E w \in AllWorkers : WPrintResult(w)
ParCountLoad == \E w \in AllWorkers : WCountLoad(w)
ParCountStore == \E w \in AllWorkers : WCountStore(w)
ParUnlock == \E w \in AllWorkers : WUnlock(w)
ParReturn == \E w \in AllWorkers : WReturn(w)

NextPar ==
    \/ ParStart \/ ParCall \/ ParValveLoad \/ ParValveStore \/ ParValveCheck
    \/ ParValveReset \/ ParLock \/ ParPrintHead \/ ParPrintResult \/ ParCountLoad
    \/ ParCountStore \/ ParUnlock \/ ParReturn \/ MainEndParse

-----------------------------------------------------------------------------
(* unknown-x86: the block cross-validator, doFunction and doBlock *)

\* a claimed instruction as Block::getInsns delivers it: its raw bytes (size()
\* of them) and how far its address lies behind the end of the one before
InsnKinds == {<<1>>, <<2, 0>>, <<2>>, <<0>>}
InsnChoices == [raw : InsnKinds, gap : {0}] \cup [raw : {<<1>>}, gap : {1}]
BlockStarts == {2}

\* imap, a std::map keyed by address: ascending, no address twice
RECURSIVE Imap(_, _, _)
Imap(cs, i, addr) ==
    IF i > Len(cs) THEN <<>>
    ELSE LET a == addr + cs[i].gap IN
         <<[addr |-> a, len |-> Len(cs[i].raw), raw |-> cs[i].raw]>>
            \o Imap(cs, i + 1, a + Len(cs[i].raw))

ImapEnd(start, imap) ==
    IF imap = <<>> THEN start ELSE imap[Len(imap)].addr + imap[Len(imap)].len

\* a block whose size() reaches the end of its last instruction, or one byte less
MkBlock(start, cs, cut) ==
    LET imap == Imap(cs, 1, start)
        nominal == ImapEnd(start, imap) - start IN
    [start |-> start, size |-> IF nominal >= cut THEN nominal - cut ELSE 0, imap |-> imap]
BlocksOf(n) ==
    {MkBlock(start, cs, cut) : start \in BlockStarts, cs \in [1..n -> InsnChoices], cut \in 0..1}

\* memset(buf, 0, buf_size) with buf_size = block_size + 20
ZeroBuf(block_size) == [k \in 0..(block_size + BlockBufExtra - 1) |-> 0]
\* for (n = 0; n < dyn_len; n++) buf[pos + n] = rawByte(n)
CopyRaw(buf, pos, raw) ==
    [k \in DOMAIN buf |-> IF k >= pos /\ k < pos + Len(raw) THEN raw[k - pos + 1] ELSE buf[k]]
\* &buf[off], 16 bytes
WindowAt(buf, off) == [k \in 1..XedDecodeWindow |-> buf[off + k - 1]]

\* goto end_block: the index at which the loop over imap goes on
NextInsn(i, n) == i + 1
GotoEndBlock(i, n) == n + 1

\* if (pos + dyn_len > block_size)
TooLongForBuf(pos, dyn_len, block_size) == pos + dyn_len > block_size + BlockBufExtra
TooLong(pos, dyn_len, block_size) == pos + dyn_len > block_size

NoChecks(block_size) ==
    [align |-> 0, length |-> 0, bad |-> 0, checks |-> <<>>, ended |-> FALSE,
     buf |-> ZeroBuf(block_size)]
Checked(acc, step, i, err) ==
    [acc EXCEPT !.checks = Append(@, [step |-> step, i |-> i, err |-> err])]

\* step 2: fill the buffer, check that the instructions are adjacent
RECURSIVE FillWalk(_, _, _, _)
FillWalk(b, i, pos, acc) ==
    IF i > Len(b.imap) THEN acc
    ELSE LET addr == b.imap[i].addr
             dyn_len == b.imap[i].len IN
         IF b.start + pos # addr
         THEN FillWalk(b, GotoEndBlock(i, Len(b.imap)), pos,
                       [Checked(acc, 2, i, "align") EXCEPT !.align = @ + 1, !.ended = TRUE])
         ELSE IF TooLong(pos, dyn_len, b.size)
         THEN FillWalk(b, GotoEndBlock(i, Len(b.imap)), pos,
                       [Checked(acc, 2, i, "length") EXCEPT !.length = @ + 1, !.ended = TRUE])
         ELSE FillWalk(b, i + 1, pos + dyn_len,
                       [Checked(acc, 2, i, "none") EXCEPT
                           !.buf = CopyRaw(@, pos, b.imap[i].raw)])

\* step 3: compare each claimed length with the reference decoder's
RECURSIVE CheckWalk(_, _, _)
CheckWalk(b, i, acc) ==
    IF i > Len(b.imap) THEN acc
    ELSE LET addr == b.imap[i].addr
             dyn_len == b.imap[i].len
             d == xed_decode(WindowAt(acc.buf, addr - b.start))
             xed_len == IF ~d.error THEN d.length ELSE 0 IN
         IF d.error \/ dyn_len # xed_len
         THEN CheckWalk(b, GotoEndBlock(i, Len(b.imap)),
                        [Checked(acc, 3, i, "bad") EXCEPT !.bad = @ + 1, !.ended = TRUE])
         ELSE CheckWalk(b, i + 1, Checked(acc, 3, i, "none"))

\* doBlock that reports a block's errors in the first pass only
doBlockChecksOnce(b) ==
    LET filled == FillWalk(b, 1, 0, NoChecks(b.size)) IN
    IF vpass > 1 THEN NoChecks(b.size)
    ELSE IF filled.ended THEN filled ELSE CheckWalk(b, 1, filled)

\* doBlock(block): what one validation adds to the counters, and what it checked
doBlockChecks(b) ==
    LET filled == FillWalk(b, 1, 0, NoChecks(b.size)) IN
    IF filled.ended THEN filled ELSE CheckWalk(b, 1, filled)

\* BlockLessThan of unknown-x86, on the start addresses
BlockLessThanStart(a, b) == a < b

\* main's phase 2 loop enters doFunction: num_blocks += blockVec.size(), and
\* std::sort(blockVec) fixes the order in which doBlock will get the blocks
DoFunction ==
    /\ pc = "phase2"
    /\ todo = 0
    /\ \E size \in 1..(MaxBlocks - num_blocks) :
          /\ num_blocks' = num_blocks + size
          /\ todo' = size
    /\ blk' = NoBlock
    /\ UNCHANGED <<num_instns, num_bytes, blockErrors>>
    /\ UNCHANGED <<xedVars, parVars, dumpVars, gapVars>>

\* one call doBlock(blockVec[n]); the blocks come in ascending start address
DoBlock ==
    /\ pc = "phase2"
    /\ todo > 0
    /\ \E n \in 0..(MaxInsns - num_instns) : \E b \in BlocksOf(n) :
          /\ ~BlockLessThanStart(b.start, blk.b.start)
          /\ LET r == doBlockChecks(b) IN
             /\ num_bytes' = num_bytes + b.size
             /\ num_instns' = num_instns + Len(b.imap)
             /\ num_block_align_errors' = num_block_align_errors + r.align
             /\ num_block_length_errors' = num_block_length_errors + r.length
             /\ num_bad_length' = num_bad_length + r.bad
             /\ blk' = [b |-> b, checks |-> r.checks, done |-> TRUE]
             /\ IF r.ended /\ ~opts.quiet
                THEN /\ stdout_lines' = stdout_lines + r.align + r.length + r.bad
                     /\ stdout_tail' =
                           <<Piece(0, <<"block error", r.checks[Len(r.checks)].err>>, TRUE)>>
                ELSE UNCHANGED <<stdout_lines, stdout_tail>>
    /\ todo' = todo - 1
    /\ UNCHANGED num_blocks
    /\ UNCHANGED <<opts, pc, initial_parse, num_xed_errors, unknownCounters,
                   last, calls, streak>>
    /\ UNCHANGED <<parVars, dumpVars, gapVars>>

BlockArgSeqs == {<<>>, <<"-q">>}
ValidateStart == \E args \in BlockArgSeqs : MainStart(args)

NextBlock == ValidateStart \/ MainEndParse \/ DoFunction \/ DoBlock

-----------------------------------------------------------------------------
(* unknown-x86: phase 2 over every function, then phase 3, doGaps *)

Blk(start, end) == [start |-> start, end |-> end]
\* the blocks the engine may have found, as address ranges [start, end)
GapBlocks ==
    {Blk(256, 272), Blk(264, 280), Blk(258, 260), Blk(262, 264), Blk(282, 290),
     Blk(287, 289), Blk(288, 290), Blk(335, 337), Blk(336, 338), Blk(527, 529),
     Blk(528, 530)}

RECURSIVE BlockSetsUpTo(_)
BlockSetsUpTo(k) ==
    IF k = 0 THEN {{}}
    ELSE LET smaller == BlockSetsUpTo(k - 1) IN
         smaller \cup {S \cup {b} : S \in smaller, b \in GapBlocks}

\* code_obj->funcs() as sorted into funcVec: no, one or two functions, each
\* with the set of its blocks; a block may belong to both
FuncVecs ==
    {<<>>} \cup {<<S>> : S \in BlockSetsUpTo(MaxGapBlocks)}
       \cup UNION {{<<S1, S2>> : S2 \in BlockSetsUpTo(MaxGapBlocks - Cardinality(S1))} :
                      S1 \in BlockSetsUpTo(MaxGapBlocks)}

\* a block of these binaries as doBlock sees it: two-byte instructions back
\* to back from start() to end(), but for three blocks the engine got wrong:
\* at 287 a two-byte instruction claimed as two of one byte, at 335 a first
\* instruction that does not begin at start(), at 527 a second instruction
\* past end()
RECURSIVE TwoByteInsns(_, _)
TwoByteInsns(addr, end) ==
    IF addr >= end THEN <<>>
    ELSE <<[addr |-> addr, len |-> 2, raw |-> <<2, 0>>]>> \o TwoByteInsns(addr + 2, end)
InsnsOf(g) ==
    CASE g.start = 287 -> <<[addr |-> 287, len |-> 1, raw |-> <<2>>],
                            [addr |-> 288, len |-> 1, raw |-> <<1>>]>>
      [] g.start = 335 -> <<[addr |-> 336, len |-> 1, raw |-> <<1>>]>>
      [] g.start = 527 -> <<[addr |-> 527, len |-> 2, raw |-> <<2, 0>>],
                            [addr |-> 529, len |-> 2, raw |-> <<2, 0>>]>>
      [] OTHER -> TwoByteInsns(g.start, g.end)
AsBlock(g) == [start |-> g.start, size |-> g.end - g.start, imap |-> InsnsOf(g)]

\* the vector filled from a container, in one of the orders it may deliver
RECURSIVE SomeOrder(_)
SomeOrder(S) ==
    IF S = {} THEN <<>>
    ELSE LET b == CHOOSE x \in S : TRUE IN <<b>> \o SomeOrder(S \ {b})
\* std::sort(blockVec.begin(), blockVec.end(), BlockLessThan) on a vector
\* that may hold a block more than once
SortByStart(v) ==
    LET perms == {p \in [1..Len(v) -> 1..Len(v)] : \A i, j \in 1..Len(v) : i # j => p[i] # p[j]}
    IN  {w \in {[i \in 1..Len(v) |-> v[p[i]]] : p \in perms} :
            \A i, j \in 1..Len(w) : i < j => ~BlockLessThanStart(w[j].start, w[i].start)}

\* doFunction: what the doBlock calls on blockVec add to the counters
RECURSIVE ValidateAll(_, _, _)
ValidateAll(blockVec, n, acc) ==
    IF n > Len(blockVec) THEN acc
    ELSE LET b == AsBlock(blockVec[n])
             r == doBlockChecks(b) IN
         ValidateAll(blockVec, n + 1,
                     [bytes |-> acc.bytes + b.size, instns |-> acc.instns + Len(b.imap),
                      align |-> acc.align + r.align, length |-> acc.length + r.length,
                      bad |-> acc.bad + r.bad])

\* phase 2 begins: funcList is copied into funcVec and sorted
MainFuncVec ==
    /\ pc = "phase2"
    /\ funcBlocks' \in FuncVecs
    /\ vidx' = 1
    /\ pc' = "validate"
    /\ UNCHANGED <<opts, initial_parse, num_xed_errors, unknownCounters,
                   stdout_lines, stdout_tail, last, calls, streak>>
    /\ UNCHANGED <<gapVec, gn, prev_block, gapStats, reports, reVars>>
    /\ UNCHANGED <<parVars, blockVars, dumpVars>>

\* one iteration of main's phase 2 loop: doFunction(funcVec[n])
MainValidate ==
    /\ pc = "validate"
    /\ vidx <= Len(funcBlocks)
    /\ \E blockVec \in SortByStart(SomeOrder(funcBlocks[vidx])) :
          LET r == ValidateAll(blockVec, 1,
                      [bytes |-> 0, instns |-> 0, align |-> 0, length |-> 0, bad |-> 0]) IN
          /\ num_blocks' = num_blocks + Len(blockVec)
          /\ num_bytes' = num_bytes + r.bytes
          /\ num_instns' = num_instns + r.instns
          /\ num_block_align_errors' = num_block_align_errors + r.align
          /\ num_block_length_errors' = num_block_length_errors + r.length
          /\ num_bad_length' = num_bad_length + r.bad
          /\ stdout_lines' =
                stdout_lines + (IF opts.quiet THEN 0 ELSE r.align + r.length + r.bad)
    /\ vidx' = vidx + 1
    /\ UNCHANGED <<opts, pc, initial_parse, num_xed_errors, unknownCounters,
                   stdout_tail, last, calls, streak>>
    /\ UNCHANGED <<todo, blk>>
    /\ UNCHANGED <<funcBlocks, gapVec, gn, prev_block, gapStats, reports, reVars>>
    /\ UNCHANGED <<parVars, dumpVars>>

\* all blocks of all functions, function after function
RECURSIVE AllBlocks(_, _)
AllBlocks(fv, n) ==
    IF n > Len(fv) THEN <<>> ELSE SomeOrder(fv[n]) \o AllBlocks(fv, n + 1)

\* the phase 3 banner and the head of doGaps: collect the blocks, sort them,
\* prev_block = blockVec[0].  On an empty vector that read is outside the
\* vector's storage: the process dies on it, or goes on with a meaningless
\* pointer that the loop never uses.
MainDoGaps ==
    /\ pc = "validate"
    /\ vidx > Len(funcBlocks)
    /\ gapVec' \in SortByStart(AllBlocks(funcBlocks, 1))
    /\ gn' = 1
    /\ IF gapVec' = <<>>
       THEN /\ prev_block' = [start |-> -1, end |-> -1]
            /\ pc' \in {"gaps", "segv"}
       ELSE /\ prev_block' = gapVec'[1]
            /\ pc' = "gaps"
    /\ stdout_lines' = stdout_lines + 3
    /\ stdout_tail' = <<Piece(0, <<"phase 3">>, TRUE)>>
    /\ UNCHANGED <<opts, initial_parse, num_xed_errors, unknownCounters, last, calls, streak>>
    /\ UNCHANGED <<funcBlocks, vidx, gapStats, reports, reVars>>
    /\ UNCHANGED <<parVars, blockVars, dumpVars>>

\* which band a gap of this size is counted in
GapBandInclusive(size) ==
    IF size <= 16 THEN "16" ELSE IF size <= 64 THEN "64" ELSE IF size <= 256 THEN "256" ELSE "other"
GapBand(size) ==
    IF size < 16 THEN "16" ELSE IF size < 64 THEN "64" ELSE IF size < 256 THEN "256" ELSE "other"

\* the counters after a gap of this size
CountGap(g, size) ==
    LET band == GapBand(size)
        one(b) == IF band = b THEN 1 ELSE 0
        sz(b) == IF band = b THEN size ELSE 0 IN
    [g EXCEPT !.num_gaps = @ + 1, !.size_gaps = @ + size,
              !.num_gaps_16 = @ + one("16"), !.size_gaps_16 = @ + sz("16"),
              !.num_gaps_64 = @ + one("64"), !.size_gaps_64 = @ + sz("64"),
              !.num_gaps_256 = @ + one("256"), !.size_gaps_256 = @ + sz("256"),
              !.num_gaps_other = @ + one("other"), !.size_gaps_other = @ + sz("other")]

\* which block the next comparison starts from
NextPrev(prev, block) == block

\* one iteration of for (n = 1; n < blockVec.size(); n++)
GapStep ==
    /\ pc = "gaps"
    /\ gn < Len(gapVec)
    /\ LET block == gapVec[gn + 1]
           size == block.start - prev_block.end
           kind == IF size > 0 THEN "gap" ELSE IF size < 0 THEN "overlap" ELSE "none" IN
       /\ gapStats' = IF size > 0 THEN CountGap(gapStats, size)
                      ELSE IF size < 0 THEN [gapStats EXCEPT !.num_overlap = @ + 1]
                      ELSE gapStats
       /\ reports' = Append(reports, [kind |-> kind, prev |-> prev_block,
                                      next |-> block, size |-> size])
       /\ IF kind # "none" /\ ~opts.quiet
          THEN /\ stdout_lines' = stdout_lines + 1
               /\ stdout_tail' = <<Piece(0, <<kind, prev_block, block, size>>, TRUE)>>
          ELSE UNCHANGED <<stdout_lines, stdout_tail>>
       /\ prev_block' = NextPrev(prev_block, block)
    /\ gn' = gn + 1
    /\ UNCHANGED <<opts, pc, initial_parse, num_xed_errors, unknownCounters, last, calls, streak>>
    /\ UNCHANGED <<funcBlocks, vidx, gapVec, reVars>>
    /\ UNCHANGED <<parVars, blockVars, dumpVars>>

\* doGaps returns; main prints the summary and returns 0
MainSummary ==
    /\ pc = "gaps"
    /\ gn >= Len(gapVec)
    /\ stdout_lines' = stdout_lines + 19
          + (IF num_block_align_errors > 0 \/ num_block_length_errors > 0 THEN 1 ELSE 0)
    /\ stdout_tail' = <<Piece(0, <<"num blocks overlap", gapStats.num_overlap>>, TRUE)>>
    /\ pc' = "done"
    /\ UNCHANGED <<opts, initial_parse, num_xed_errors, unknownCounters, last, calls, streak>>
    /\ UNCHANGED gapVars
    /\ UNCHANGED <<parVars, blockVars, dumpVars>>

\* the validator's counters
Counters ==
    [num_blocks |-> num_blocks, num_instns |-> num_instns, num_bytes |-> num_bytes,
     num_bad_length |-> num_bad_length,
     num_block_align_errors |-> num_block_align_errors,
     num_block_length_errors |-> num_block_length_errors]

\* main's phase 2 loop is entered once more in the same process, over the
\* same funcVec: nothing resets the counters in between
Revalidate ==
    /\ pc = "validate"
    /\ vidx > Len(funcBlocks)
    /\ vpass = 1
    /\ vpass' = 2
    /\ firstRun' = Counters
    /\ vidx' = 1
    /\ UNCHANGED <<funcBlocks, gapVec, gn, prev_block, gapStats, reports>>
    /\ UNCHANGED <<xedVars, parVars, blockVars, dumpVars>>

GapArgSeqs == {<<>>}
GapsStart == \E args \in GapArgSeqs : MainStart(args)

NextGaps ==
    \/ GapsStart \/ MainEndParse \/ MainFuncVec \/ MainValidate
    \/ MainDoGaps \/ GapStep \/ MainSummary

NextRevalidate ==
    \/ GapsStart \/ MainEndParse \/ MainFuncVec \/ MainValidate \/ Revalidate

-----------------------------------------------------------------------------
(* cfg-parse: getOptions, and a run with the options given *)

OutputOptions == {"-A", "+A", "-B", "+B", "-S", "+S", "-I", "+I", "-L", "+L"}

\* one iteration of getOptions' loop on an output option, +I and +L leaving
\* show_stmts alone
getOptionLayerOnly(arg, o) ==
    CASE arg = "-A" -> [show_blocks |-> FALSE, show_stmts |-> FALSE,
                        show_inline |-> FALSE, show_linemap |-> FALSE]
      [] arg = "+A" -> [show_blocks |-> TRUE, show_stmts |-> TRUE,
                        show_inline |-> TRUE, show_linemap |-> TRUE]
      [] arg = "-B" -> [o EXCEPT !.show_blocks = FALSE]
      [] arg = "+B" -> [o EXCEPT !.show_blocks = TRUE]
      [] arg = "-S" -> [o EXCEPT !.show_stmts = FALSE, !.show_inline = FALSE,
                                 !.show_linemap = FALSE]
      [] arg = "+S" -> [o EXCEPT !.show_stmts = TRUE, !.show_inline = TRUE,
                                 !.show_linemap = TRUE]
      [] arg = "-I" -> [o EXCEPT !.show_inline = FALSE]
      [] arg = "+I" -> [o EXCEPT !.show_inline = TRUE]
      [] arg = "-L" -> [o EXCEPT !.show_linemap = FALSE]
      [] arg = "+L" -> [o EXCEPT !.show_linemap = TRUE]
      [] OTHER -> o

\* one iteration of getOptions' loop on an output option
getOption(arg, o) ==
    CASE arg = "-A" -> [show_blocks |-> FALSE, show_stmts |-> FALSE,
                        show_inline |-> FALSE, show_linemap |-> FALSE]
      [] arg = "+A" -> [show_blocks |-> TRUE, show_stmts |-> TRUE,
                        show_inline |-> TRUE, show_linemap |-> TRUE]
      [] arg = "-B" -> [o EXCEPT !.show_blocks = FALSE]
      [] arg = "+B" -> [o EXCEPT !.show_blocks = TRUE]
      [] arg = "-S" -> [o EXCEPT !.show_stmts = FALSE, !.show_inline = FALSE,
                                 !.show_linemap = FALSE]
      [] arg = "+S" -> [o EXCEPT !.show_stmts = TRUE, !.show_inline = TRUE,
                                 !.show_linemap = TRUE]
      [] arg = "-I" -> [o EXCEPT !.show_inline = FALSE]
      [] arg = "+I" -> [o EXCEPT !.show_inline = TRUE, !.show_stmts = TRUE]
      [] arg = "-L" -> [o EXCEPT !.show_linemap = FALSE]
      [] arg = "+L" -> [o EXCEPT !.show_linemap = TRUE, !.show_stmts = TRUE]
      [] OTHER -> o

\* getOptions takes the next argument of the command line
OptArg ==
    /\ dpc = "start"
    /\ dargn < MaxOptArgs
    /\ \E arg \in OutputOptions :
          /\ dopts' = getOption(arg, dopts)
          /\ dlast' = arg
    /\ dargn' = dargn + 1
    /\ UNCHANGED <<graph, funcList, blist, targets, funcVec, fidx, out, emitted,
                   dpc, run, prevOut, prevOrder>>
    /\ UNCHANGED <<xedVars, parVars, blockVars, gapVars>>

\* the binary of the runs with options: two functions at 1 and 3, block 1
\* at 1 and block 2 at 3, a call edge to block 1 and its fall-through to
\* block 2
RenderGraph == [faddr |-> (1 :> 1) @@ (2 :> 3), bstart |-> (1 :> 1) @@ (2 :> 3),
                etrg |-> [e \in EdgeIds |-> e]]

InitOpts ==
    /\ graph = RenderGraph
    /\ funcList = <<>> /\ blist = NoOrder /\ targets = NoTargets
    /\ funcVec = <<>> /\ fidx = 0
    /\ out = <<>> /\ emitted = <<>>
    /\ dpc = "start" /\ run = 1
    /\ prevOut = <<>> /\ prevOrder = <<>>
    /\ dopts = DefaultOptions /\ dargn = 0 /\ dlast = ""
    /\ IdleUnknown

NextOpts == OptArg \/ MainParse \/ MainSortFuncs \/ MainDoFunction \/ MainFinish

-----------------------------------------------------------------------------
(* Specifications: one per tool and scenario; the other tool stays idle *)

vars == <<dumpVars, xedVars, parVars, blockVars, gapVars>>

\* cfg-parse, run twice on one binary
InitDumpSpec == InitDump /\ IdleUnknown
SpecDump == InitDumpSpec /\ [][NextDump]_vars

\* cfg-parse, one run with output options on the command line
SpecOpts == InitOpts /\ [][NextOpts]_vars

\* unknown-x86 with one worker: option parsing, the parse phase and replays
SpecXed == InitXed /\ [][NextXed]_vars

\* unknown-x86 with two parse workers calling myXedCallback concurrently
SpecPar == InitXed /\ [][NextPar]_vars

\* unknown-x86, phase 2: the block cross-validator
SpecBlock == InitXed /\ [][NextBlock]_vars

\* unknown-x86, phases 2 and 3 on a binary given by its functions' blocks
SpecGaps == InitXed /\ [][NextGaps]_vars

\* unknown-x86, phase 2 run twice in one process
SpecRevalidate == InitXed /\ [][NextRevalidate]_vars

\* unknown-x86 with one worker, long enough for the runaway safety valve
SpecValve == InitXed /\ [][NextValve]_vars

-----------------------------------------------------------------------------
(* Claims about the Canonical Dumper and Canonical Ordering *)

\* the address key of an emitted object
KeyOf(ev) ==
    CASE ev[1] = "F" -> graph.faddr[ev[2]]
      [] ev[1] = "B" -> graph.bstart[ev[3]]
      [] ev[1] = "E" -> graph.bstart[graph.etrg[ev[4]]]

\* two functions; two blocks of one function; two out edges of one block
Siblings(x, y) ==
    /\ x[1] = y[1]
    /\ x[1] = "B" => x[2] = y[2]
    /\ x[1] = "E" => (x[2] = y[2] /\ x[3] = y[3])

EmittedBefore(x, y) ==
    \E i, j \in 1..Len(emitted) : i < j /\ emitted[i] = x /\ emitted[j] = y

\* everything one complete dump emits
AllEvents ==
    {<<"F", f>> : f \in FuncIds}
    \cup {<<"B", f, b>> : f \in FuncIds, b \in BlockIds}
    \cup {<<"E", f, b, e>> : f \in FuncIds, b \in BlockIds, e \in EdgeIds}
DumpEvents ==
    {ev \in AllEvents :
        /\ ev[1] = "B" => ev[3] \in FuncBlocks[ev[2]]
        /\ ev[1] = "E" => (ev[3] \in FuncBlocks[ev[2]] /\ ev[4] \in BlockEdges[ev[3]])}

\* C1 (as stated): in a complete dump, for functions, for blocks of one
\* function and for out edges of one block, x is emitted before y if and only
\* if x's address key is smaller than y's.
C1_TotalOrderIff ==
    dpc = "done" =>
        \A x, y \in DumpEvents :
            Siblings(x, y) => (EmittedBefore(x, y) <=> KeyOf(x) < KeyOf(y))

\* C1 (amended): every object is emitted exactly once; a smaller address key
\* implies emitted earlier, and for two objects whose keys differ emitted
\* earlier implies the smaller key; at every moment the keys of the siblings
\* emitted so far are non-decreasing.
C1_TotalOrder ==
    /\ \A i, j \in 1..Len(emitted) :
          (i < j /\ Siblings(emitted[i], emitted[j])) => KeyOf(emitted[i]) <= KeyOf(emitted[j])
    /\ dpc = "done" =>
          /\ Range(emitted) = DumpEvents /\ Len(emitted) = Cardinality(DumpEvents)
          /\ \A x, y \in DumpEvents :
                Siblings(x, y) =>
                   /\ KeyOf(x) < KeyOf(y) => EmittedBefore(x, y)
                   /\ (EmittedBefore(x, y) /\ KeyOf(x) # KeyOf(y)) => KeyOf(x) < KeyOf(y)

\* C1 witness: a finished dump whose containers delivered the functions, the
\* blocks of function 1 and the out edges of block 1 in descending address order
C1_Witness ==
    /\ dpc = "done"
    /\ FuncLessThan(funcList[2], funcList[1])
    /\ BlockLessThan(blist[1][2], blist[1][1])
    /\ EdgeLessThan(targets[1][2], targets[1][1])

\* no two functions, no two blocks of one function and no two out edges of
\* one block share an address key
UniqueKeys ==
    \A x, y \in DumpEvents : (Siblings(x, y) /\ x # y) => KeyOf(x) # KeyOf(y)

\* no two functions share an entry address and no two blocks of one function
\* share a start address, as in every correct parse
UniqueFuncAndBlockKeys ==
    \A x, y \in DumpEvents :
        (Siblings(x, y) /\ x # y /\ x[1] \in {"F", "B"}) => KeyOf(x) # KeyOf(y)

\* C2: for a fixed graph the standard output of two invocations is identical
\* whatever order the containers delivered in, also when two out edges of one
\* block share a target address (stated for graphs whose functions and
\* blocks have distinct addresses).
C2_DeterministicAlways ==
    (run = 2 /\ dpc = "done" /\ UniqueFuncAndBlockKeys) => out = prevOut

\* when no two sibling objects share an address key, the second invocation's
\* standard output equals the first invocation's for every pair of container
\* delivery orders
DeterministicWithoutTies ==
    (run = 2 /\ dpc = "done" /\ UniqueKeys) => out = prevOut

\* two finished invocations on a graph without ties whose containers
\* delivered functions, blocks and edges in different orders
DeterministicWithoutTiesReached ==
    /\ run = 2 /\ dpc = "done" /\ UniqueKeys
    /\ prevOrder[1] # funcList
    /\ prevOrder[2][1] # blist[1]
    /\ prevOrder[3][1] # targets[1]
    /\ out = prevOut

\* position of x in the sequence s
IndexIn(s, x) == CHOOSE i \in 1..Len(s) : s[i] = x

\* C3: the sorts are stable: out edges of one block with equal target address
\* are emitted in the order block->targets() delivered them (stated for the
\* edge sort of doBlock; the function and block sorts use std::sort alike).
C3_StableOrder ==
    \A i, j \in 1..Len(emitted) :
        (/\ i < j
         /\ UniqueFuncAndBlockKeys
         /\ emitted[i][1] = "E"
         /\ Siblings(emitted[i], emitted[j])
         /\ KeyOf(emitted[i]) = KeyOf(emitted[j]))
            => IndexIn(targets[emitted[i][3]], emitted[i][4])
                  < IndexIn(targets[emitted[i][3]], emitted[j][4])

-----------------------------------------------------------------------------
(* Claims about the Resync Decoder Adapter, one worker *)

\* the Reference Decoder succeeds on the bytes of buf from offset k on
DecodesAt(buf, k) == ~xed_decode(SubSeq(buf, k + 1, Len(buf))).error
TrollOffsets(buf) == {k \in 1..(Len(buf) - 1) : DecodesAt(buf, k)}
LeastOffset(buf) == CHOOSE k \in TrollOffsets(buf) : \A j \in TrollOffsets(buf) : k <= j

\* C4: an invocation is UNKNOWN_VALID iff the decoder succeeds at offset 0;
\* else UNKNOWN_TROLL, with the smallest succeeding offset of 1..N-1 recorded,
\* iff some such offset succeeds; else UNKNOWN_ERROR; never two at once.
C4_Classification ==
    calls > 0 =>
        LET buf == last.buf IN
        /\ last.is_valid <=> DecodesAt(buf, 0)
        /\ last.is_troll <=> (~DecodesAt(buf, 0) /\ TrollOffsets(buf) # {})
        /\ last.is_troll => last.start = LeastOffset(buf)
        /\ (~last.is_valid /\ ~last.is_troll) <=>
              (\A k \in 0..(Len(buf) - 1) : ~DecodesAt(buf, k))
        /\ ~(last.is_valid /\ last.is_troll)
        /\ last.xed_error <=> (~last.is_valid /\ ~last.is_troll)

\* C4 witness: a window that fails at offset 0 and decodes at offsets 1 and 2
\* was classified UNKNOWN_TROLL with offset 1
C4_Witness ==
    /\ calls > 0
    /\ Len(last.buf) = 3
    /\ ~DecodesAt(last.buf, 0) /\ DecodesAt(last.buf, 1) /\ DecodesAt(last.buf, 2)
    /\ last.is_troll /\ last.start = 1

\* C5: the returned instruction is a filler of the reference length for
\* UNKNOWN_VALID with fix_valid, a filler of the troll offset for UNKNOWN_TROLL
\* with fix_troll, the empty instruction otherwise; a filler has length >= 1.
C5_ReturnedInstruction ==
    (calls > 0 /\ last.returned) =>
        LET buf == last.buf IN
        /\ last.ret =
              IF DecodesAt(buf, 0) /\ opts.fix_valid THEN Filler(xed_decode(buf).length)
              ELSE IF ~DecodesAt(buf, 0) /\ TrollOffsets(buf) # {} /\ opts.fix_troll
                   THEN Filler(LeastOffset(buf))
                   ELSE NoInstruction
        /\ last.ret.valid => last.ret.size >= 1

\* C5 witness: a troll at offset 2 whose reference length there is 1 was
\* answered with a filler of length 2
C5_Witness ==
    /\ calls > 0 /\ last.returned
    /\ last.is_troll /\ opts.fix_troll
    /\ last.start = 2 /\ last.xed_len = 1
    /\ last.ret = Filler(2)

\* C6: with one worker the process exits with code 1 exactly at the
\* invocation that is the 21st UNKNOWN_ERROR in a row; until then
\* num_xed_errors is the number of UNKNOWN_ERROR outcomes in a row, so a
\* UNKNOWN_VALID or UNKNOWN_TROLL outcome resets it to 0, in the counting
\* pass and in replays, quiet or not, with or without a filler.
C6_SafetyValve ==
    /\ pc = "exit1" <=> streak = 21
    /\ streak <= 21
    /\ pc # "exit1" => num_xed_errors = streak
    /\ (calls > 0 /\ (last.is_valid \/ last.is_troll)) => num_xed_errors = 0
    /\ pc = "exit1" => (~last.returned /\ last.xed_error)

\* C6 witness: the valve trips in a replay, in quiet mode, after an earlier
\* UNKNOWN_TROLL outcome had reset the count
C6_Witness ==
    /\ pc = "exit1"
    /\ initial_parse = 0 /\ opts.quiet
    /\ num_unknown_troll > 0
    /\ calls > 21

IsCall == calls' = calls + 1
TraceLineWritten == stdout_lines' > stdout_lines /\ stdout_tail'[1].text[1] = "unknown:"
OneSubCounter ==
    \/ (num_unknown_valid' = num_unknown_valid + 1
        /\ UNCHANGED <<num_unknown_troll, num_unknown_error>>)
    \/ (num_unknown_troll' = num_unknown_troll + 1
        /\ UNCHANGED <<num_unknown_valid, num_unknown_error>>)
    \/ (num_unknown_error' = num_unknown_error + 1
        /\ UNCHANGED <<num_unknown_valid, num_unknown_troll>>)
FlagDiscipline ==
    /\ pc = "parse" => initial_parse = 1
    /\ pc = "phase2" => initial_parse = 0

\* C7 (as stated): every invocation with the flag off leaves the four
\* counters alone and writes no trace line; every invocation with the flag on
\* adds 1 to num_unknown and to exactly one sub-counter; the flag is on
\* during the parse, off from phase 2 on and never turned on again.
C7_CountingPassEveryCall ==
    /\ [][IsCall =>
            /\ initial_parse = 0 => (UNCHANGED unknownCounters /\ ~TraceLineWritten)
            /\ initial_parse = 1 => (num_unknown' = num_unknown + 1 /\ OneSubCounter)]_vars
    /\ [][initial_parse = 0 => initial_parse' = 0]_vars
    /\ []FlagDiscipline

\* C7 (amended): as stated, for the invocations that return to the engine;
\* the invocation that trips the runaway valve exits before the counting
\* section and changes no counter.
C7_CountingPass ==
    /\ [][IsCall =>
            /\ initial_parse = 0 => (UNCHANGED unknownCounters /\ ~TraceLineWritten)
            /\ (initial_parse = 1 /\ pc' # "exit1") =>
                  (num_unknown' = num_unknown + 1 /\ OneSubCounter)
            /\ pc' = "exit1" => UNCHANGED unknownCounters]_vars
    /\ [][initial_parse = 0 => initial_parse' = 0]_vars
    /\ []FlagDiscipline

\* C7 witness: after counted invocations of all three outcomes a replay has
\* returned and the counters still add up to the counted invocations
C7_Witness ==
    /\ pc = "phase2" /\ initial_parse = 0
    /\ last.flag = 0 /\ last.returned
    /\ num_unknown_valid > 0 /\ num_unknown_troll > 0 /\ num_unknown_error > 0
    /\ num_unknown = num_unknown_valid + num_unknown_troll + num_unknown_error
    /\ calls > num_unknown

-----------------------------------------------------------------------------
(* Claims about myXedCallback called by two parse workers (SpecPar) *)

InCritical(w) == wpc[w] \in {"print", "result", "count", "store", "unlock"}
BeforeCount(w) ==
    wpc[w] \in {"valve", "incr", "check", "lock", "print", "result", "count", "store"}
Pending == Cardinality({w \in AllWorkers : BeforeCount(w) /\ wloc[w].flag = 1})
OneWriter(tail) == \A i, j \in 1..Len(tail) : tail[i].by = tail[j].by

C9_NoOutputInParallelParse ==
    [][(pc = "parse" /\ opts.jobs > 1 /\ pc' = "parse")
          => UNCHANGED <<stdout_lines, stdout_tail>>]_vars

-----------------------------------------------------------------------------
(* Claims about the Block Cross-Validator (SpecBlock) *)

ErrSum == num_block_align_errors + num_block_length_errors + num_bad_length
IsDoBlock == todo' = todo - 1

\* where instruction i would start if all before it were adjacent
PosAt(b, i) == SumSeq([k \in 1..(i - 1) |-> b.imap[k].len])
\* the bytes of all instructions one after the other, then zeros
RECURSIVE RawFrom(_, _)
RawFrom(b, i) == IF i > Len(b.imap) THEN <<0, 0>> ELSE b.imap[i].raw \o RawFrom(b, i + 1)
\* every instruction adjacent, inside the block and of the reference length
Clean(b) ==
    \A i \in 1..Len(b.imap) :
        /\ b.imap[i].addr = b.start + PosAt(b, i)
        /\ PosAt(b, i) + b.imap[i].len <= b.size
        /\ LET d == xed_decode(RawFrom(b, i)) IN ~d.error /\ d.length = b.imap[i].len
\* the first two instructions pass step 2 and the third is not adjacent
MisalignedThird(b) ==
    /\ Len(b.imap) >= 3
    /\ \A i \in 1..2 : /\ b.imap[i].addr = b.start + PosAt(b, i)
                       /\ PosAt(b, i) + b.imap[i].len <= b.size
    /\ b.imap[3].addr # b.start + PosAt(b, 3)

\* C10: one doBlock adds 0 or 1 to the sum of the three error counters and
\* lowers none of them; it adds 0 for a clean block; the check at which an
\* error is recorded is the last check of that block; and a block whose third
\* instruction is misaligned adds 1 to num_block_align_errors, nothing to the
\* other two, after three checks, whatever follows the third instruction.
C10_OneErrorPerBlock ==
    /\ [][IsDoBlock =>
            /\ ErrSum' - ErrSum \in {0, 1}
            /\ num_block_align_errors' >= num_block_align_errors
            /\ num_block_length_errors' >= num_block_length_errors
            /\ num_bad_length' >= num_bad_length
            /\ Clean(blk'.b) => ErrSum' = ErrSum
            /\ ErrSum' = ErrSum =>
                  \A k \in 1..Len(blk'.checks) : blk'.checks[k].err = "none"
            /\ MisalignedThird(blk'.b) =>
                  /\ num_block_align_errors' = num_block_align_errors + 1
                  /\ UNCHANGED <<num_block_length_errors, num_bad_length>>
                  /\ Len(blk'.checks) = 3]_vars
    /\ [](blk.done =>
            /\ \A k \in 1..(Len(blk.checks) - 1) : blk.checks[k].err = "none"
            /\ \A k \in 1..Len(blk.checks) : blk.checks[k].i <= Len(blk.b.imap))

\* C10 witness: a block of four instructions was validated, its third
\* instruction misaligned and its fourth one undecodable, and one
\* BLOCK_ALIGN_ERROR is all that was recorded
C10_Witness ==
    /\ blk.done
    /\ MisalignedThird(blk.b)
    /\ Len(blk.b.imap) = 4 /\ blk.b.imap[4].raw = <<0>>
    /\ blk.checks[3] = [step |-> 2, i |-> 3, err |-> "align"]
    /\ num_block_align_errors = 1 /\ ErrSum = 1

-----------------------------------------------------------------------------
(* Claims about the fill walk of doBlock (SpecBlock) *)

FillChecks == {k \in 1..Len(blk.checks) : blk.checks[k].step = 2}
Aligned(b, i) == b.imap[i].addr = b.start + PosAt(b, i)
InsnEnd(b, i) == PosAt(b, i) + b.imap[i].len
\* after a check that found nothing the walk goes on with the next
\* instruction, or with step 3 after the last one
WalkContinues(k) ==
    LET i == blk.checks[k].i IN
    /\ k < Len(blk.checks)
    /\ k < Len(blk.checks) =>
          blk.checks[k + 1] \in
             {[step |-> 2, i |-> i + 1, err |-> e] : e \in {"none", "align", "length"}}
             \cup {[step |-> 3, i |-> 1, err |-> e] : e \in {"none", "bad"}}
    /\ (k < Len(blk.checks) /\ blk.checks[k + 1].step = 3) => i = Len(blk.b.imap)

\* C11 (as stated): an aligned instruction gets BLOCK_LENGTH_ERROR iff it
\* would end outside the buffer of block length plus the extra bytes; one
\* that ends past the block end but inside the buffer is copied and the walk
\* continues.
C11_LengthErrorIffOutsideBuffer ==
    blk.done =>
        \A k \in FillChecks :
            LET i == blk.checks[k].i IN
            Aligned(blk.b, i) =>
                /\ blk.checks[k].err = "length"
                      <=> InsnEnd(blk.b, i) > blk.b.size + BlockBufExtra
                /\ InsnEnd(blk.b, i) <= blk.b.size + BlockBufExtra
                      => (blk.checks[k].err = "none" /\ WalkContinues(k))

\* C11 (amended): an aligned instruction gets BLOCK_LENGTH_ERROR iff it would
\* end past the block's own size; one that ends inside the block is copied
\* and the walk continues; so every copy stays inside the buffer.
C11_LengthErrorIffOutsideBlock ==
    blk.done =>
        \A k \in FillChecks :
            LET i == blk.checks[k].i IN
            /\ blk.checks[k].err = "align" <=> ~Aligned(blk.b, i)
            /\ Aligned(blk.b, i) =>
                  /\ blk.checks[k].err = "length" <=> InsnEnd(blk.b, i) > blk.b.size
                  /\ InsnEnd(blk.b, i) <= blk.b.size
                        => (blk.checks[k].err = "none" /\ WalkContinues(k)
                            /\ InsnEnd(blk.b, i) <= blk.b.size + BlockBufExtra)

\* C11 witness: the second instruction of a block is adjacent to the first,
\* ends one byte past the block end, well inside the buffer, and is recorded
\* as BLOCK_LENGTH_ERROR
C11_Witness ==
    /\ blk.done
    /\ Len(blk.checks) = 2
    /\ blk.checks[2] = [step |-> 2, i |-> 2, err |-> "length"]
    /\ Aligned(blk.b, 2)
    /\ InsnEnd(blk.b, 2) = blk.b.size + 1
    /\ num_block_length_errors = 1

-----------------------------------------------------------------------------
(* Claims about the Gap/Overlap Analyzer (SpecGaps) *)

IsGapStep == pc = "gaps" /\ gn' = gn + 1
\* the adjacent pair of the sorted sequence that a step of the loop compares
PairPrev == gapVec[gn]
PairNext == gapVec[gn + 1]
PairSize == PairNext.start - PairPrev.end

\* the counters after a gap of a size that lies in lo..hi, for each band
GapIn16(g, size) ==
    [g EXCEPT !.num_gaps = @ + 1, !.size_gaps = @ + size,
              !.num_gaps_16 = @ + 1, !.size_gaps_16 = @ + size]
GapIn64(g, size) ==
    [g EXCEPT !.num_gaps = @ + 1, !.size_gaps = @ + size,
              !.num_gaps_64 = @ + 1, !.size_gaps_64 = @ + size]
GapIn256(g, size) ==
    [g EXCEPT !.num_gaps = @ + 1, !.size_gaps = @ + size,
              !.num_gaps_256 = @ + 1, !.size_gaps_256 = @ + size]
GapInOther(g, size) ==
    [g EXCEPT !.num_gaps = @ + 1, !.size_gaps = @ + size,
              !.num_gaps_other = @ + 1, !.size_gaps_other = @ + size]

\* C12: a step of doGaps' loop compares an adjacent pair of the sorted
\* sequence; with size = next.start - previous.end, a size in 1..15 is counted
\* as a gap under 16, 16..63 under 64, 64..255 under 256, 256 and more as
\* other, each with its size and in num_gaps and size_gaps; a negative size
\* adds 1 to num_overlap only; size 0 changes nothing; nothing else changes
\* the counters.  A = [0x100,0x110), B = [0x108,0x118) is one overlap, no gap.
C12_GapCounters ==
    /\ [][IsGapStep =>
            /\ prev_block = PairPrev
            /\ PairSize \in 1..15 => gapStats' = GapIn16(gapStats, PairSize)
            /\ PairSize \in 16..63 => gapStats' = GapIn64(gapStats, PairSize)
            /\ PairSize \in 64..255 => gapStats' = GapIn256(gapStats, PairSize)
            /\ PairSize >= 256 => gapStats' = GapInOther(gapStats, PairSize)
            /\ PairSize < 0 => gapStats' = [gapStats EXCEPT !.num_overlap = @ + 1]
            /\ PairSize = 0 => gapStats' = gapStats
            /\ (PairPrev = Blk(256, 272) /\ PairNext = Blk(264, 280)) =>
                  (gapStats'.num_overlap = gapStats.num_overlap + 1
                     /\ gapStats'.num_gaps = gapStats.num_gaps)]_vars
    /\ [][~IsGapStep => gapStats' = gapStats]_vars

\* C12 witness: doGaps has compared A = [0x100,0x110) with B = [0x108,0x118)
\* and B with a block 56 bytes further on: one overlap, one gap under 64
C12_Witness ==
    /\ pc = "done"
    /\ gapVec = <<Blk(256, 272), Blk(264, 280), Blk(336, 338)>>
    /\ Len(reports) = 2
    /\ reports[1].kind = "overlap" /\ reports[2].kind = "gap" /\ reports[2].size = 56
    /\ gapStats = [NoGaps EXCEPT !.num_overlap = 1, !.num_gaps = 1, !.size_gaps = 56,
                                 !.num_gaps_64 = 1, !.size_gaps_64 = 56]

InDoGaps == pc \in {"gaps", "segv", "done"}

\* C13: on an empty block set doGaps reads no block, records no gap and no
\* overlap and returns, so that the summary is printed; on a set of one
\* block it records nothing either.
C13_EmptySetNoAnalysis ==
    /\ (InDoGaps /\ gapVec = <<>>) =>
          /\ prev_block = NoGapBlock
          /\ pc # "segv"
          /\ reports = <<>> /\ gapStats = NoGaps
    /\ (InDoGaps /\ Len(gapVec) = 1) =>
          (pc # "segv" /\ reports = <<>> /\ gapStats = NoGaps)

\* does block b claim a byte of the range [lo, hi)
Claims(b, lo, hi) == b.start < hi /\ b.end > lo /\ b.start < b.end

\* C14: every range [previous.end, next.start) that doGaps reports as a gap
\* is claimed by no block of the whole block set.
C14_GapsAreUnclaimed ==
    \A k \in 1..Len(reports) :
        reports[k].kind = "gap" =>
            \A i \in 1..Len(gapVec) :
                ~Claims(gapVec[i], reports[k].prev.end, reports[k].next.start)

-----------------------------------------------------------------------------
(* Claims about cfg-parse's output options (SpecOpts) *)

IsOptArg == dargn' = dargn + 1

\* C15: after any sequence of output options the finer layers are on only
\* if statements are: show_inline or show_linemap implies show_stmts; -S
\* turns inline and line map off together with statements; +I and +L turn
\* statements on.
C15_LayerInvariant ==
    /\ []((dopts.show_inline \/ dopts.show_linemap) => dopts.show_stmts)
    /\ [][IsOptArg =>
            /\ dlast' = "-S" =>
                  (~dopts'.show_stmts /\ ~dopts'.show_inline /\ ~dopts'.show_linemap)
            /\ dlast' = "+I" => (dopts'.show_inline /\ dopts'.show_stmts)
            /\ dlast' = "+L" => (dopts'.show_linemap /\ dopts'.show_stmts)]_vars

\* C15 witness: -S then +I: statements are back on with inline, line map
\* still off
C15_Witness ==
    /\ dargn = 2 /\ dlast = "+I"
    /\ dopts = [show_blocks |-> TRUE, show_stmts |-> TRUE,
                show_inline |-> TRUE, show_linemap |-> FALSE]

\* what main has written so far, had the options been o: the header line
\* and doFunction of the functions already dumped
RenderedWith(o) ==
    LET edgeVecOf == CHOOSE ev \in EdgeVecChoices : TRUE
        blockVecOf == [f \in FuncIds |-> CHOOSE v \in StdSort(blist[f], BlockLess) : TRUE]
        n == IF fidx > Len(funcVec) THEN Len(funcVec) ELSE fidx - 1
    IN  << <<"file">> >>
        \o Concat([k \in 1..n |->
                     doFunction(o, funcVec[k], blockVecOf[funcVec[k]], edgeVecOf)])

IsFuncLine(l) == l[1] = "func"
IsStmtOrInlineLine(l) == l[1] \in {"stmt", "inline"}
IsBlockOrEdgeLine(l) == l[1] \in {"block", "out edges"}
IsStructureLine(l) == l[1] \in {"func", "block", "out edges"}
NotBlockOrEdgeLine(l) == ~IsBlockOrEdgeLine(l)
NotInlineLine(l) == l[1] # "inline"
NotBlankLine(l) == l[1] # ""

\* a function header without its "(blocks, bytes, noreturn)" part; a stmt
\* line without its line map part
WithoutSummary(l) == IF l[1] = "func" THEN <<l[1], l[2], <<>>, l[4]>> ELSE l
WithoutLineMap(l) == IF l[1] = "stmt" THEN <<l[1], l[2], l[3], <<>> >> ELSE l
MapLines(Op(_), s) == [k \in 1..Len(s) |-> Op(s[k])]

Dumping == dpc = "dump" /\ fidx > 1
BlocksOff == [dopts EXCEPT !.show_blocks = FALSE]
InlineOff == [dopts EXCEPT !.show_inline = FALSE]
LineMapOff == [dopts EXCEPT !.show_linemap = FALSE]

\* turning show_inline or show_linemap off changes no function, block or
\* edge line
FinerLayersKeepStructure ==
    /\ SelectSeq(RenderedWith(InlineOff), IsStructureLine)
          = SelectSeq(RenderedWith(dopts), IsStructureLine)
    /\ SelectSeq(RenderedWith(LineMapOff), IsStructureLine)
          = SelectSeq(RenderedWith(dopts), IsStructureLine)

RECURSIVE InlineRun(_, _)
InlineRun(s, k) ==
    IF k <= Len(s) /\ s[k][1] = "inline" THEN <<s[k]>> \o InlineRun(s, k + 1) ELSE <<>>

Reverse(s) == [k \in 1..Len(s) |-> s[Len(s) + 1 - k]]
FrameLine(fr) == <<"inline", fr.callline, fr.callfile, fr.name>>
\* the functions of a chain that have an inlined parent: all but the last
Inlined(chain) == SubSeq(chain, 1, Len(chain) - 1)

\* C17 as stated: the inline lines after a stmt line are the engine's chain
\* at that address in exactly reversed order, one line per frame of the
\* chain (O, I1, I0 for the chain I0 in I1 in O), and none when the address
\* has no containing inlined function.
C17_ChainReversed ==
    \A k \in 1..Len(out) :
        (out[k][1] = "stmt" /\ dopts.show_inline) =>
            LET chain == InlineChainAt(out[k][2])
                lines == InlineRun(out, k + 1)
            IN  /\ Len(lines) = Len(chain)
                /\ \A j \in 1..Len(lines) : lines[j][4] = Reverse(chain)[j].name

\* C17 amended: the inline lines after a stmt line are, outermost first, one
\* line per inlined function of the engine's chain at that address (every
\* function of the chain that has an inlined parent, with its call site),
\* none dropped or duplicated: I1 then I0 for the chain I0 in I1 in O; the
\* enclosing function that is not inlined gets no line; an address with no
\* inlined function gets no inline line; every inline line follows a stmt
\* line or another inline line.
C17_InlinedReversed ==
    /\ \A k \in 1..Len(out) :
          out[k][1] = "stmt" =>
             LET chain == InlineChainAt(out[k][2])
                 lines == InlineRun(out, k + 1)
             IN  IF dopts.show_inline
                 THEN /\ lines = [j \in 1..Len(Inlined(chain)) |->
                                     FrameLine(Reverse(Inlined(chain))[j])]
                      /\ Len(chain) <= 1 => lines = <<>>
                      /\ Len(chain) > 1 => Len(lines) = Len(chain) - 1
                      /\ \A j \in 1..Len(lines) : lines[j][4] # chain[Len(chain)].name
                 ELSE lines = <<>>
    /\ \A k \in 1..Len(out) :
          out[k][1] = "inline" => (k > 1 /\ out[k - 1][1] \in {"stmt", "inline"})

\* C17 witness: the stmt at address 1 (I0 in I1 in O) is followed by the
\* lines of I1 and I0 in this order, the stmt at address 2 (no inlined
\* function) by none, the stmt at address 3 (I2 in P) by the line of I2
C17_Witness ==
    /\ dopts.show_inline
    /\ \E k \in 1..Len(out) :
          /\ out[k][1] = "stmt" /\ out[k][2] = 1
          /\ InlineRun(out, k + 1) = << <<"inline", 3, "o.c", "I1">>,
                                        <<"inline", 7, "i1.h", "I0">> >>
    /\ \E k \in 1..Len(out) :
          /\ out[k][1] = "stmt" /\ out[k][2] = 2
          /\ InlineRun(out, k + 1) = <<>>
    /\ \E k \in 1..Len(out) :
          /\ out[k][1] = "stmt" /\ out[k][2] = 3
          /\ InlineRun(out, k + 1) = << <<"inline", 5, "p.c", "I2">> >>

-----------------------------------------------------------------------------
(* Claims about re-validation (SpecRevalidate) *)

PassDone(n) == pc = "validate" /\ vpass = n /\ vidx > Len(funcBlocks)
Twice(c) == [k \in DOMAIN c |-> 2 * c[k]]

-----------------------------------------------------------------------------
(* Claims about the consecutive-failure counter under parallel parse (SpecPar) *)

Quiescent == \A w \in AllWorkers : wpc[w] = "idle"

\* C19: with two or more workers in myXedCallback no increment of
\* num_xed_errors is lost: when every invocation has returned and each of
\* them ended UNKNOWN_ERROR, num_xed_errors is the number of invocations.
C19_NoLostIncrement ==
    (pc = "parse" /\ Quiescent /\ num_unknown_error = calls) => num_xed_errors = calls

-----------------------------------------------------------------------------
(* Claims about blocks shared by several functions (SpecGaps) *)

DistinctBlocks == UNION {funcBlocks[k] : k \in 1..Len(funcBlocks)}
DistinctBytes ==
    LET v == SomeOrder(DistinctBlocks) IN SumSeq([k \in 1..Len(v) |-> v[k].end - v[k].start])

\* C20: a block that belongs to several functions is validated and counted
\* once: after phase 2 num_blocks is the number of distinct blocks,
\* num_bytes the sum of their sizes and the block errors are at most one
\* per distinct block; in phase 3 the merged sorted sequence holds each
\* block once, and no OVERLAP is reported for a block against itself.
C20_SharedBlockOnce ==
    /\ (pc \in {"validate", "gaps", "done"} /\ vidx > Len(funcBlocks)) =>
          /\ num_blocks = Cardinality(DistinctBlocks)
          /\ num_bytes = DistinctBytes
          /\ num_bad_length + num_block_align_errors + num_block_length_errors
                <= Cardinality(DistinctBlocks)
    /\ pc \in {"gaps", "done"} =>
          /\ \A i, j \in 1..Len(gapVec) : i # j => gapVec[i] # gapVec[j]
          /\ \A k \in 1..Len(reports) :
                reports[k].kind = "overlap" => reports[k].prev # reports[k].next

====
